---- MODULE Spec2Model ----
(***************************************************************************)
(* A model of web_tracker.py: the startup sequence start_tracking, the     *)
(* per-batch VesselTrackerWebSocket workers with their reconnect loop, the *)
(* on_message handler that merges position reports into the process-wide  *)
(* vessel_positions table and emits vessel_update events, and the status   *)
(* reads get_stats / get_vessels.                                          *)
(*                                                                         *)
(* A Python value that may be None is modelled as a sequence: <<>> is None *)
(* and <<v>> is the value v.                                               *)
(***************************************************************************)
EXTENDS Integers, Sequences, FiniteSets, TLC

\* ------------------------------------------------------------------ bounds

\* Largest catalog the startup query may return (identifiers 1..MaxVessels).
MaxVessels == 3
\* Total number of inbound messages delivered to the workers in one run.
MaxMsgs == 2
\* Length of the identifier lists the batch-creation step is checked on.
MaxListLen == 4
\* Largest maximum batch size the batch-creation step is checked on.
MaxBatchSize == 3

\* ------------------------------------------------------- program constants

\* MAX_MMSI_PER_CONNECTION = 50 in the source; scaled down so that a catalog
\* of MaxVessels identifiers is split into more than one batch.
MAX_MMSI_PER_CONNECTION == 2

WEBSOCKET_URL == "wss://stream.aisstream.io/v0/stream"

\* ------------------------------------------------------------ Python values

None == << >>

Some(v) == << v >>

\* Python truthiness of an optional number: None and 0 are falsy.
Truthy(x) == x # None /\ x[1] # 0

\* dict.get(key, default) on a message field that may be absent.
GetOr(x, default) == IF x = None THEN default ELSE x[1]

\* x or default, for a column that may be NULL or empty.
OrDefault(x, default) == IF x = None THEN default ELSE x[1]

Min(a, b) == IF a < b THEN a ELSE b

\* f with key k bound to v (dict item assignment).
DictSet(f, k, v) == [x \in DOMAIN f \cup {k} |-> IF x = k THEN v ELSE f[x]]

EmptyDict == [x \in {} |-> None]

\* ------------------------------------------------------------- the catalog

\* The row the catalog holds for identifier m: the first vessel has a NULL
\* name and flag_state, the others have both.
CatalogRow(m) ==
    [mmsi |-> m,
     name |-> IF m = 1 THEN None ELSE Some("Vessel"),
     ship_type |-> Some(70),
     length |-> 100 + m,
     beam |-> Some(20),
     imo |-> None,
     call_sign |-> None,
     flag_state |-> IF m = 1 THEN None ELSE Some("NO")]

\* The results the query of get_filtered_vessels may return: n rows.
CatalogRows(n) == [i \in 1..n |-> CatalogRow(i)]

\* The static-data entry get_filtered_vessels stores for a row.
StaticEntry(row) ==
    [name |-> OrDefault(row.name, "Unknown"),
     ship_type |-> row.ship_type,
     length |-> row.length,
     beam |-> row.beam,
     imo |-> row.imo,
     call_sign |-> row.call_sign,
     flag_state |-> OrDefault(row.flag_state, "Unknown")]

\* ------------------------------------------------------------ batch creation

\* Mutant of Slice: the slice stops one element early (mmsi_list[i:i+B-1]).
SliceShort(list, i, B) == SubSeq(list, i + 1, Min(i + B - 1, Len(list)))

\* Mutant of Slice: the slice runs one element too far (mmsi_list[i:i+B+1]),
\* so consecutive batches overlap.
SliceOverlap(list, i, B) == SubSeq(list, i + 1, Min(i + B + 1, Len(list)))

\* mmsi_list[i:i + B] with a 0-based start i: the elements i+1 .. min(i+B, N).
Slice(list, i, B) == SubSeq(list, i + 1, Min(i + B, Len(list)))

\* The loop "for i in range(0, len(mmsi_list), B): batches.append(...)".
RECURSIVE BatchesFrom(_, _, _)
BatchesFrom(list, i, B) ==
    IF i >= Len(list) THEN << >>
    ELSE << Slice(list, i, B) >> \o BatchesFrom(list, i + B, B)

CreateBatches(list, B) == BatchesFrom(list, 0, B)

RECURSIVE Concat(_)
Concat(ss) == IF ss = << >> THEN << >> ELSE Head(ss) \o Concat(Tail(ss))

CeilDiv(n, b) == (n + b - 1) \div b

\* -------------------------------------------------------------------- state

VARIABLES
    sup_pc,              \* position of start_tracking
    API_KEY,             \* global API_KEY (None until loaded)
    vessel_static_data,  \* global {mmsi: static attributes}
    vessel_positions,    \* global {mmsi: position entry}
    tracking_active,     \* global tracking_active
    mmsi_list,           \* start_tracking's local mmsi_list
    batches,             \* start_tracking's local batches
    trackers,            \* the VesselTrackerWebSocket objects started so far
    emitted,             \* the vessel_update events handed to socketio.emit
    nrecv,               \* inbound messages delivered so far
    last_merge,          \* history: per identifier, the dict the latest
                         \* item assignment of on_message was given
    merge_log,           \* history: the item assignments of on_message in
                         \* the order they were made
    part_in,             \* input of the batch-creation check: <<list, B>>
    part_out,            \* its output (None until computed)
    observer,            \* a Socket.IO client and what it has been sent
    request              \* a GET /api/vessels request being served

vars == << sup_pc, API_KEY, vessel_static_data, vessel_positions,
           tracking_active, mmsi_list, batches, trackers, emitted, nrecv,
           last_merge, merge_log, part_in, part_out, observer,
           request >>

part_vars == << part_in, part_out >>

prog_vars == << sup_pc, API_KEY, vessel_static_data, vessel_positions,
                tracking_active, mmsi_list, batches, trackers, emitted, nrecv,
                last_merge, merge_log >>

serve_vars == << observer, request >>

Workers == 1..Len(trackers)

\* -------------------------------------------------------------------- Init

\* The module's globals as the import leaves them, before start_tracking.
ProgInit ==
    /\ sup_pc = "load_api_key"
    /\ API_KEY = None
    /\ vessel_static_data = EmptyDict
    /\ vessel_positions = EmptyDict
    /\ tracking_active = FALSE
    /\ mmsi_list = << >>
    /\ batches = << >>
    /\ trackers = << >>
    /\ emitted = << >>
    /\ nrecv = 0
    /\ last_merge = EmptyDict
    /\ merge_log = << >>

\* No client has connected and no request has arrived.
ServeInit ==
    /\ observer = [pc |-> "away", first |-> 0, initial_data |-> None]
    /\ request = [pc |-> "none", next |-> 0, vessels |-> << >>,
                  begin |-> 0, end |-> 0]

Init ==
    /\ ProgInit
    /\ ServeInit
    /\ part_in = << << >>, MAX_MMSI_PER_CONNECTION >>
    /\ part_out = None

\* ------------------------------------------------------------ load_api_key

\* The contents api.txt may have: None when the file cannot be opened,
\* otherwise its lines, each already stripped ("" is a blank line).
ApiKeyFiles ==
    { None, Some(<< >>), Some(<< "" >>), Some(<< "k1" >>),
      Some(<< "k0", "k1" >>), Some(<< "k1", "" >>) }

\* "for line in reversed(lines): if line: return line": the last non-blank
\* line, or None when there is none.
RECURSIVE LastNonBlank(_)
LastNonBlank(lines) ==
    IF lines = << >> THEN None
    ELSE IF lines[Len(lines)] # "" THEN Some(lines[Len(lines)])
    ELSE LastNonBlank(SubSeq(lines, 1, Len(lines) - 1))

\* load_api_key: the key, or None when it raises.
load_api_key(file) == IF file = None THEN None ELSE LastNonBlank(file[1])

\* ---------------------------------------------------------- start_tracking

\* Mutant of StartupFailed: the flag is set on the way out as well
\* ("finally: tracking_active = True").
StartupFailedSetsActive ==
    /\ sup_pc' = "failed"
    /\ tracking_active' = TRUE
    /\ UNCHANGED << vessel_static_data, vessel_positions, mmsi_list, batches,
                    trackers, emitted, nrecv,
                    last_merge, merge_log >>

\* The except clause of start_tracking: print and return.
StartupFailed ==
    /\ sup_pc' = "failed"
    /\ UNCHANGED << vessel_static_data, vessel_positions, tracking_active,
                    mmsi_list, batches, trackers, emitted, nrecv,
                    last_merge, merge_log >>

\* API_KEY = load_api_key()
LoadApiKey ==
    /\ sup_pc = "load_api_key"
    /\ \E file \in ApiKeyFiles :
          LET key == load_api_key(file) IN
          IF key = None
          THEN StartupFailed /\ UNCHANGED API_KEY
          ELSE /\ API_KEY' = key
               /\ sup_pc' = "get_filtered_vessels"
               /\ UNCHANGED << vessel_static_data, vessel_positions,
                               tracking_active, mmsi_list, batches, trackers,
                               emitted, nrecv,
                               last_merge, merge_log >>
    /\ UNCHANGED << part_vars, serve_vars >>

\* The static data after "for vessel in vessels: vessel_static_data[mmsi] = ...".
SeedStatic(rows) ==
    [m \in {rows[i].mmsi : i \in DOMAIN rows} |->
        StaticEntry(rows[CHOOSE i \in DOMAIN rows :
                           /\ rows[i].mmsi = m
                           /\ \A j \in DOMAIN rows : rows[j].mmsi = m => j <= i])]

\* mmsi_list = get_filtered_vessels(): the query fails (sqlite raises) or
\* returns n rows, which are stored as static data.
GetFilteredVessels ==
    /\ sup_pc = "get_filtered_vessels"
    /\ \E ok \in BOOLEAN, n \in 0..MaxVessels :
          IF ~ok
          THEN StartupFailed
          ELSE LET rows == CatalogRows(n) IN
               /\ vessel_static_data' = SeedStatic(rows)
               /\ mmsi_list' = [i \in DOMAIN rows |-> rows[i].mmsi]
               /\ sup_pc' = "create_batches"
               /\ UNCHANGED << vessel_positions, tracking_active, batches,
                               trackers, emitted, nrecv,
                               last_merge, merge_log >>
    /\ UNCHANGED << API_KEY, part_vars, serve_vars >>

\* The "Create batches" loop; with no batch the "Start trackers" loop body
\* never runs.
CreateBatchesStep ==
    /\ sup_pc = "create_batches"
    /\ batches' = CreateBatches(mmsi_list, MAX_MMSI_PER_CONNECTION)
    /\ sup_pc' = IF batches' = << >> THEN "set_active" ELSE "start_trackers"
    /\ UNCHANGED << API_KEY, vessel_static_data, vessel_positions,
                    tracking_active, mmsi_list, trackers, emitted, nrecv,
                    last_merge, merge_log,
                    part_vars, serve_vars >>

\* VesselTrackerWebSocket.__init__ followed by start(): running is set and
\* the thread is at the top of _run_forever.
NewTracker(i, batch, key) ==
    [batch_id |-> i,
     mmsi_batch |-> batch,
     api_key |-> key,
     running |-> TRUE,
     state |-> "Disconnected",
     sent |-> << >>,
     pc |-> "idle",
     mmsi |-> None,
     sample |-> None,
     payload |-> None]

\* Mutant of StartTracker: the flag is set inside the loop, when the first
\* tracker has been started.
StartTrackerSetsActive ==
    /\ sup_pc = "start_trackers"
    /\ LET i == Len(trackers) + 1 IN
         /\ trackers' = Append(trackers, NewTracker(i, batches[i], API_KEY))
         /\ sup_pc' = IF i = Len(batches) THEN "set_active" ELSE "start_trackers"
    /\ tracking_active' = TRUE
    /\ UNCHANGED << API_KEY, vessel_static_data, vessel_positions,
                    mmsi_list, batches, emitted, nrecv, last_merge, merge_log,
                    part_vars, serve_vars >>

\* One iteration of "for i, batch in enumerate(batches, 1)": construct the
\* tracker, start it, sleep one second.
StartTracker ==
    /\ sup_pc = "start_trackers"
    /\ LET i == Len(trackers) + 1 IN
         /\ trackers' = Append(trackers, NewTracker(i, batches[i], API_KEY))
         /\ sup_pc' = IF i = Len(batches) THEN "set_active" ELSE "start_trackers"
    /\ UNCHANGED << API_KEY, vessel_static_data, vessel_positions,
                    tracking_active, mmsi_list, batches, emitted, nrecv,
                    last_merge, merge_log,
                    part_vars, serve_vars >>

\* tracking_active = True
SetActive ==
    /\ sup_pc = "set_active"
    /\ tracking_active' = TRUE
    /\ sup_pc' = "done"
    /\ UNCHANGED << API_KEY, vessel_static_data, vessel_positions, mmsi_list,
                    batches, trackers, emitted, nrecv,
                    last_merge, merge_log, part_vars, serve_vars >>

\* ------------------------------------------------- the worker's connection

\* trackers with tracker w replaced by t.
SetTracker(w, t) == [trackers EXCEPT ![w] = t]

\* The state a worker is left in when run_forever has returned normally:
\* "if self.running: time.sleep(5)", then the test of the while loop.
AfterRunForever(t) == IF t.running THEN "Backoff" ELSE "Terminated"

\* Mutant of LoopTest: the loop gives up instead of reconnecting.
LoopTestGiveUp(t) == "Terminated"

\* The test "while self.running" at the top of _run_forever.
LoopTest(t) == IF t.running THEN "Connecting" ELSE "Terminated"

\* The worker after the loop test: with running set it creates a new
\* WebSocketApp (nothing sent on it yet) and run_forever starts connecting.
NextAttempt(t) ==
    [t EXCEPT !.state = LoopTest(t),
              !.sent = IF t.running THEN << >> ELSE @]

\* The thread enters _run_forever: the first test of the loop, then a new
\* WebSocketApp whose run_forever starts connecting.
RunLoop(w) ==
    /\ trackers[w].state = "Disconnected"
    /\ trackers' = SetTracker(w, NextAttempt(trackers[w]))
    /\ UNCHANGED << sup_pc, API_KEY, vessel_static_data, vessel_positions,
                    tracking_active, mmsi_list, batches, emitted, nrecv,
                    last_merge, merge_log,
                    part_vars, serve_vars >>

\* The handshake succeeds: the connection is open and on_open is due.
HandshakeOk(w) ==
    /\ trackers[w].state = "Connecting"
    /\ trackers' = SetTracker(w, [trackers[w] EXCEPT !.state = "Subscribed"])
    /\ UNCHANGED << sup_pc, API_KEY, vessel_static_data, vessel_positions,
                    tracking_active, mmsi_list, batches, emitted, nrecv,
                    last_merge, merge_log,
                    part_vars, serve_vars >>

\* Mutant of SubscribeMessage: the request lists the whole catalog instead
\* of the worker's batch.
SubscribeMessageWholeCatalog(t) ==
    [APIKey |-> t.api_key,
     FiltersShipMMSI |-> [i \in DOMAIN mmsi_list |-> ToString(mmsi_list[i])],
     BoundingBoxes |-> << << << 90, -180 >>, << -90, 180 >> >> >>]

\* The subscription request on_open builds.
SubscribeMessage(t) ==
    [APIKey |-> t.api_key,
     FiltersShipMMSI |-> [i \in DOMAIN t.mmsi_batch |-> ToString(t.mmsi_batch[i])],
     BoundingBoxes |-> << << << 90, -180 >>, << -90, 180 >> >> >>]

\* on_open: send the subscription; the connection then delivers messages.
OnOpen(w) ==
    /\ trackers[w].state = "Subscribed"
    /\ trackers' = SetTracker(w,
          [trackers[w] EXCEPT !.state = "Receiving",
                              !.sent = Append(@, SubscribeMessage(trackers[w]))])
    /\ UNCHANGED << sup_pc, API_KEY, vessel_static_data, vessel_positions,
                    tracking_active, mmsi_list, batches, emitted, nrecv,
                    last_merge, merge_log,
                    part_vars, serve_vars >>

\* The connection attempt fails. Either run_forever reports it through
\* on_error / on_close and returns, or an exception reaches the except
\* clause of _run_forever, which sleeps whatever the running flag says.
ConnectFail(w) ==
    /\ trackers[w].state = "Connecting"
    /\ \E raised \in BOOLEAN :
          trackers' = SetTracker(w,
             [trackers[w] EXCEPT !.state = IF raised THEN "Backoff"
                                           ELSE AfterRunForever(trackers[w])])
    /\ UNCHANGED << sup_pc, API_KEY, vessel_static_data, vessel_positions,
                    tracking_active, mmsi_list, batches, emitted, nrecv,
                    last_merge, merge_log,
                    part_vars, serve_vars >>

\* Mutant of ConnectionLost: on a close the worker also drops the position
\* entries of its batch.
ConnectionLostClears(w) ==
    /\ trackers[w].state = "Receiving"
    /\ trackers[w].pc = "idle"
    /\ trackers' = SetTracker(w,
          [trackers[w] EXCEPT !.state = AfterRunForever(trackers[w])])
    /\ vessel_positions' =
          [m \in DOMAIN vessel_positions \
                 {trackers[w].mmsi_batch[i] : i \in DOMAIN trackers[w].mmsi_batch}
              |-> vessel_positions[m]]
    /\ UNCHANGED << sup_pc, API_KEY, vessel_static_data, tracking_active,
                    mmsi_list, batches, emitted, nrecv,
                    last_merge, merge_log,
                    part_vars, serve_vars >>

\* The open connection closes or errors between two messages: on_error and
\* on_close only print, then run_forever returns.
ConnectionLost(w) ==
    /\ trackers[w].state = "Receiving"
    /\ trackers[w].pc = "idle"
    /\ trackers' = SetTracker(w,
          [trackers[w] EXCEPT !.state = AfterRunForever(trackers[w])])
    /\ UNCHANGED << sup_pc, API_KEY, vessel_static_data, vessel_positions,
                    tracking_active, mmsi_list, batches, emitted, nrecv,
                    last_merge, merge_log,
                    part_vars, serve_vars >>

\* time.sleep(5) returns: the loop test, then the next connection attempt.
BackoffExpire(w) ==
    /\ trackers[w].state = "Backoff"
    /\ trackers' = SetTracker(w, NextAttempt(trackers[w]))
    /\ UNCHANGED << sup_pc, API_KEY, vessel_static_data, vessel_positions,
                    tracking_active, mmsi_list, batches, emitted, nrecv,
                    last_merge, merge_log, part_vars, serve_vars >>

\* ---------------------------------------------------------- inbound messages

\* The identifiers an inbound message may carry: absent, 0, the first and
\* the last identifier a catalog can hold (they are in different batches
\* when the catalog is split) and one identifier no catalog holds.
MsgMMSI == {None} \cup {Some(m) : m \in {0, 1, MaxVessels, MaxVessels + 1}}

MsgCoord == {None, Some(0), Some(1)}

MsgSog == {None, Some(5)}

\* The speeds reports of identifier m carry: two different ones for the
\* first identifier, so that two samples of one vessel can differ, and no
\* speed for the others.
SogOf(m) == IF m = Some(1) THEN MsgSog ELSE {None}

\* A position report as json.loads returns it, reduced to the keys
\* on_message reads; has_error says that an "error" or "Error" key is there.
PositionReportMsg(m, la, lo, sog, err) ==
    [parses |-> TRUE,
     has_error |-> err,
     MessageType |-> "PositionReport",
     MMSI |-> m,
     latitude |-> la,
     longitude |-> lo,
     Sog |-> sog,
     Cog |-> None,
     time_utc |-> None]

\* A payload json.loads rejects.
UnparseableMsg ==
    [PositionReportMsg(Some(1), Some(1), Some(1), None, FALSE)
        EXCEPT !.parses = FALSE]

\* A message of another type that happens to carry the same metadata.
OtherTypeMsg ==
    [PositionReportMsg(Some(1), Some(1), Some(1), None, FALSE)
        EXCEPT !.MessageType = "ShipStaticData"]

\* An error envelope, here one that also looks like a position report.
ErrorMsg == PositionReportMsg(Some(1), Some(1), Some(1), None, TRUE)

Messages ==
    {UnparseableMsg, OtherTypeMsg, ErrorMsg}
    \cup UNION {{PositionReportMsg(m, la, lo, sog, FALSE) :
                    la \in MsgCoord, lo \in MsgCoord, sog \in SogOf(m)} :
                 m \in MsgMMSI}

\* ----------------------------------------------------------------- on_message

\* Mutant of HasPosition: only the identifier is tested ("if mmsi:").
HasPositionIdOnly(mmsi, lat, lon) == Truthy(mmsi)

\* The test "if mmsi and lat and lon".
HasPosition(mmsi, lat, lon) == Truthy(mmsi) /\ Truthy(lat) /\ Truthy(lon)

\* Whether on_message reaches the update of vessel_positions: the payload
\* parses, has no error key, is a PositionReport and passes the test.
Accepts(msg) ==
    /\ msg.parses
    /\ ~msg.has_error
    /\ msg.MessageType = "PositionReport"
    /\ HasPosition(msg.MMSI, msg.latitude, msg.longitude)

\* vessel_static_data.get(mmsi, {}).get(key, default)
StaticName(mmsi) ==
    IF mmsi \in DOMAIN vessel_static_data
    THEN vessel_static_data[mmsi].name ELSE "Unknown"

StaticFlag(mmsi) ==
    IF mmsi \in DOMAIN vessel_static_data
    THEN vessel_static_data[mmsi].flag_state ELSE "Unknown"

\* Mutant of StaticLength: the length defaults to 0 (".get('length', 0)").
StaticLengthZero(mmsi) ==
    IF mmsi \in DOMAIN vessel_static_data
    THEN Some(vessel_static_data[mmsi].length) ELSE Some(0)

StaticLength(mmsi) ==
    IF mmsi \in DOMAIN vessel_static_data
    THEN Some(vessel_static_data[mmsi].length) ELSE None

\* The dict on_message builds for vessel_positions[mmsi].
BuildPosition(msg) ==
    [lat |-> msg.latitude,
     lon |-> msg.longitude,
     sog |-> GetOr(msg.Sog, 0),
     cog |-> GetOr(msg.Cog, 0),
     timestamp |-> GetOr(msg.time_utc, "utcnow"),
     name |-> StaticName(msg.MMSI[1]),
     length |-> StaticLength(msg.MMSI[1]),
     flag_state |-> StaticFlag(msg.MMSI[1])]

\* on_message up to the point where the new dict is built: everything in it
\* is local to the worker's thread. A message that is not accepted ends the
\* handler here (return, fall through, or the except clause).
OnMessage(w, msg) ==
    /\ trackers[w].state = "Receiving"
    /\ trackers[w].pc = "idle"
    /\ nrecv < MaxMsgs
    /\ nrecv' = nrecv + 1
    /\ trackers' = SetTracker(w,
          IF Accepts(msg)
          THEN [trackers[w] EXCEPT !.pc = "store",
                                   !.mmsi = msg.MMSI,
                                   !.sample = Some(BuildPosition(msg))]
          ELSE trackers[w])
    /\ UNCHANGED << sup_pc, API_KEY, vessel_static_data, vessel_positions,
                    tracking_active, mmsi_list, batches, emitted,
                    last_merge, merge_log,
                    part_vars, serve_vars >>

\* Mutant of Merged: an existing entry is updated in place with the new
\* coordinates only, keeping the other keys of the older sample.
MergedInPlace(old, mmsi, sample) ==
    IF mmsi \in DOMAIN old
    THEN DictSet(old, mmsi, [old[mmsi] EXCEPT !.lat = sample.lat,
                                              !.lon = sample.lon])
    ELSE DictSet(old, mmsi, sample)

\* The value the item assignment leaves under vessel_positions[mmsi].
Merged(old, mmsi, sample) == DictSet(old, mmsi, sample)

\* vessel_positions[mmsi] = {...}
StorePosition(w) ==
    /\ trackers[w].pc = "store"
    /\ vessel_positions' =
          Merged(vessel_positions, trackers[w].mmsi[1], trackers[w].sample[1])
    /\ last_merge' =
          DictSet(last_merge, trackers[w].mmsi[1], trackers[w].sample[1])
    /\ merge_log' = Append(merge_log, [mmsi |-> trackers[w].mmsi[1],
                                        position |-> trackers[w].sample[1]])
    /\ trackers' = SetTracker(w, [trackers[w] EXCEPT !.pc = "emit"])
    /\ UNCHANGED << sup_pc, API_KEY, vessel_static_data, tracking_active,
                    mmsi_list, batches, emitted, nrecv, part_vars,
                    serve_vars >>

\* The argument of socketio.emit is evaluated before the call: the dict
\* {'mmsi': mmsi, 'position': vessel_positions[mmsi]} reads the table again
\* and keeps a reference to the entry found there. Entries are never changed
\* in place, so the reference stands for the entry's value at this moment.
ReadPayload(w) ==
    /\ trackers[w].pc = "emit"
    /\ trackers' = SetTracker(w,
          [trackers[w] EXCEPT !.pc = "send",
                              !.payload = Some(vessel_positions[trackers[w].mmsi[1]])])
    /\ UNCHANGED << sup_pc, API_KEY, vessel_static_data, vessel_positions,
                    tracking_active, mmsi_list, batches, emitted, nrecv,
                    last_merge, merge_log, part_vars, serve_vars >>

\* The call socketio.emit('vessel_update', ...) hands the event to every
\* connected client. The print that follows changes nothing.
EmitUpdate(w) ==
    /\ trackers[w].pc = "send"
    /\ emitted' = Append(emitted,
          [mmsi |-> trackers[w].mmsi[1],
           position |-> trackers[w].payload[1]])
    /\ trackers' = SetTracker(w, [trackers[w] EXCEPT !.pc = "idle",
                                                      !.mmsi = None,
                                                      !.sample = None,
                                                      !.payload = None])
    /\ UNCHANGED << sup_pc, API_KEY, vessel_static_data, vessel_positions,
                    tracking_active, mmsi_list, batches, nrecv, last_merge,
                    merge_log, part_vars, serve_vars >>

\* ---------------------------------------------------------- status surface

\* Mutant of get_stats: vessels_with_position counts the wrong table.
get_statsWrongTable ==
    [total_vessels |-> Cardinality(DOMAIN vessel_static_data),
     vessels_with_position |-> Cardinality(DOMAIN vessel_static_data),
     tracking_active |-> tracking_active]

\* get_stats: the JSON body of /api/stats.
get_stats ==
    [total_vessels |-> Cardinality(DOMAIN vessel_static_data),
     vessels_with_position |-> Cardinality(DOMAIN vessel_positions),
     tracking_active |-> tracking_active]

\* ------------------------------------------------------------ specification

Next ==
    \/ LoadApiKey
    \/ GetFilteredVessels
    \/ CreateBatchesStep
    \/ StartTracker
    \/ SetActive
    \/ \E w \in Workers : RunLoop(w)
    \/ \E w \in Workers : HandshakeOk(w)
    \/ \E w \in Workers : OnOpen(w)
    \/ \E w \in Workers : ConnectFail(w)
    \/ \E w \in Workers : ConnectionLost(w)
    \/ \E w \in Workers : BackoffExpire(w)
    \/ \E w \in Workers, msg \in Messages : OnMessage(w, msg)
    \/ \E w \in Workers : StorePosition(w)
    \/ \E w \in Workers : ReadPayload(w)
    \/ \E w \in Workers : EmitUpdate(w)

Spec == Init /\ [][Next]_vars

\* ------------------------------------------- batch creation on its own

\* Every identifier list of length up to n.
ListsUpTo(n) == UNION {[1..k -> 1..MaxVessels] : k \in 0..n}

PartInit ==
    /\ ProgInit
    /\ ServeInit
    /\ part_in \in ListsUpTo(MaxListLen) \X (1..MaxBatchSize)
    /\ part_out = None

\* The "Create batches" loop applied to the chosen list and batch size.
Partition ==
    /\ part_out = None
    /\ part_out' = Some(CreateBatches(part_in[1], part_in[2]))
    /\ UNCHANGED << part_in, prog_vars, serve_vars >>

PartNext == Partition

PartSpec == PartInit /\ [][PartNext]_vars

\* C1: for a list of length N and a maximum batch size B >= 1 the batch
\* creation yields ceil(N/B) batches, each of at most B identifiers, all but
\* the last of exactly B, and their concatenation is the list itself.
PartitionCorrect ==
    part_out # None =>
        LET list == part_in[1]
            B == part_in[2]
            bs == part_out[1]
        IN  /\ Len(bs) = CeilDiv(Len(list), B)
            /\ \A i \in DOMAIN bs : Len(bs[i]) >= 1 /\ Len(bs[i]) <= B
            /\ \A i \in DOMAIN bs : i < Len(bs) => Len(bs[i]) = B
            /\ Concat(bs) = list

\* A list that fills one batch and leaves a shorter last batch, with an
\* identifier occurring twice.
PartitionWitness ==
    /\ part_out # None
    /\ part_in = << << 1, 2, 1 >>, 2 >>
    /\ part_out[1] = << << 1, 2 >>, << 1 >> >>

\* -------------------------------------------------------------- get_vessels

\* Mutant of VesselInfo: an identifier without a position entry is shown
\* with the "unknown" defaults instead of its static attributes.
VesselInfoDropsStatic(statics, positions, m) ==
    LET positioned == m \in DOMAIN positions
    IN  [mmsi |-> m,
         name |-> IF positioned THEN positions[m].name ELSE "Unknown",
         length |-> IF positioned THEN positions[m].length ELSE None,
         flag_state |-> IF positioned THEN positions[m].flag_state
                        ELSE "Unknown",
         ship_type |-> statics[m].ship_type,
         position |-> IF positioned
                      THEN Some([k \in {"lat", "lon", "sog", "cog", "timestamp"}
                                   |-> positions[m][k]])
                      ELSE None]

\* The vessel_info get_vessels builds for one identifier: the static keys,
\* then update() with the position entry, which overrides name, length and
\* flag_state; position is None for a vessel without an entry.
VesselInfo(statics, positions, m) ==
    LET static == statics[m]
        positioned == m \in DOMAIN positions
    IN  [mmsi |-> m,
         name |-> IF positioned THEN positions[m].name ELSE static.name,
         length |-> IF positioned THEN positions[m].length
                    ELSE Some(static.length),
         flag_state |-> IF positioned THEN positions[m].flag_state
                        ELSE static.flag_state,
         ship_type |-> static.ship_type,
         position |-> IF positioned
                      THEN Some([k \in {"lat", "lon", "sog", "cog", "timestamp"}
                                   |-> positions[m][k]])
                      ELSE None]

\* get_vessels: one vessel_info per key of vessel_static_data.
get_vessels ==
    [m \in DOMAIN vessel_static_data |->
        VesselInfo(vessel_static_data, vessel_positions, m)]

\* The dynamic keys of a position entry, as a snapshot shows them.
Dynamic(entry) ==
    [k \in {"lat", "lon", "sog", "cog", "timestamp"} |-> entry[k]]

\* ------------------------------------------------------------------- claims

\* C2: whatever the interleaving of the workers' on_message calls, the entry
\* of an identifier is exactly the sample of the merge applied last to it
\* (never a mix of two samples, never an earlier one), and so is what the
\* snapshot of get_vessels shows for it.
LastWriteWins ==
    /\ DOMAIN vessel_positions = DOMAIN last_merge
    /\ \A m \in DOMAIN last_merge :
          /\ vessel_positions[m] = last_merge[m]
          /\ m \in DOMAIN get_vessels =>
                get_vessels[m].position = Some(Dynamic(last_merge[m]))

\* Two workers have each applied a merge for the same identifier with
\* different samples, and the entry is the one applied last.
LastWriteWinsWitness ==
    \E w1 \in Workers, w2 \in Workers :
        /\ w1 # w2
        /\ trackers[w1].pc = "emit" /\ trackers[w2].pc = "emit"
        /\ trackers[w1].mmsi = trackers[w2].mmsi
        /\ trackers[w1].sample # trackers[w2].sample
        /\ vessel_positions[trackers[w1].mmsi[1]] = trackers[w1].sample[1]
        /\ trackers[w1].mmsi[1] \in DOMAIN get_vessels

\* A position report that carries an identifier, a latitude and a longitude
\* (and no error indicator), whatever their values.
CompleteReport(msg) ==
    /\ msg.parses
    /\ ~msg.has_error
    /\ msg.MessageType = "PositionReport"
    /\ msg.MMSI # None
    /\ msg.latitude # None
    /\ msg.longitude # None

\* C3: every position report that carries an identifier, a latitude and a
\* longitude, whatever their numeric values, goes on to be merged and
\* published; only reports missing one of them are discarded.
CompleteReportMerged ==
    [][\A w \in Workers, msg \in Messages :
          (OnMessage(w, msg) /\ CompleteReport(msg))
              => /\ trackers'[w].pc = "store"
                 /\ trackers'[w].mmsi = msg.MMSI
                 /\ trackers'[w].sample = Some(BuildPosition(msg))]_vars

\* C4 (a): a message that is not a complete position report leaves the
\* handler at once: nothing but the count of delivered messages changes, so
\* the worker is still Receiving and idle, and no store or emit follows.
\* Stated per delivery step: either the step changed nothing else, or no
\* incomplete message can have been the one delivered.
IncompleteDiscardedStep ==
    nrecv' # nrecv =>
        \/ /\ trackers' = trackers
           /\ vessel_positions' = vessel_positions
           /\ emitted' = emitted
           /\ \E w \in Workers :
                 trackers'[w].state = "Receiving" /\ trackers'[w].pc = "idle"
        \/ \A w \in Workers, msg \in Messages :
              OnMessage(w, msg) => CompleteReport(msg)

\* C4 (b): the position table and the published events change only in the
\* store and emit steps of a worker handling an accepted report.
OnlyAcceptedWrites ==
    /\ vessel_positions' # vessel_positions =>
          \E w \in Workers :
              /\ trackers[w].pc = "store"
              /\ vessel_positions' = DictSet(vessel_positions,
                                             trackers[w].mmsi[1],
                                             trackers[w].sample[1])
    /\ emitted' # emitted =>
          \E w \in Workers :
              /\ trackers[w].pc = "send"
              /\ trackers[w].mmsi[1] \in DOMAIN vessel_positions

\* C4 (c): every entry of the position table, and every dict about to be
\* stored, has a non-null latitude and longitude.
PositionsHaveCoordinates ==
    /\ \A m \in DOMAIN vessel_positions :
          vessel_positions[m].lat # None /\ vessel_positions[m].lon # None
    /\ \A w \in Workers :
          trackers[w].sample # None =>
              /\ trackers[w].sample[1].lat # None
              /\ trackers[w].sample[1].lon # None

\* C4: an unparseable message, an error envelope, a message of another type
\* or a position report lacking identifier, latitude or longitude is
\* discarded without effect on the position table, the published events or
\* the worker's connection; hence every entry has both coordinates.
IncompleteDiscarded ==
    /\ [][IncompleteDiscardedStep /\ OnlyAcceptedWrites]_vars
    /\ []PositionsHaveCoordinates

\* All the messages delivered so far were discarded: nothing is stored,
\* nothing published, and the worker that received them is still Receiving.
IncompleteDiscardedWitness ==
    /\ nrecv = MaxMsgs
    /\ vessel_positions = EmptyDict
    /\ emitted = << >>
    /\ \A w \in Workers : trackers[w].pc = "idle"
    /\ \E w \in Workers : trackers[w].state = "Receiving"

\* ------------------------------------------------------------------ fairness

\* The most workers start_tracking can start.
MaxTrackers == CeilDiv(MaxVessels, MAX_MMSI_PER_CONNECTION)

\* The steps of start_tracking's thread.
SupervisorStep ==
    LoadApiKey \/ GetFilteredVessels \/ CreateBatchesStep \/ StartTracker
    \/ SetActive

\* The steps a worker's thread takes by itself once it is scheduled: the
\* loop test, on_open, the end of the sleep, the store and the emit.
ThreadStep(w) ==
    /\ w \in Workers
    /\ (RunLoop(w) \/ OnOpen(w) \/ BackoffExpire(w) \/ StorePosition(w)
        \/ ReadPayload(w) \/ EmitUpdate(w))

\* A connection attempt ends: the handshake succeeds or fails.
ConnectResolves(w) == w \in Workers /\ (HandshakeOk(w) \/ ConnectFail(w))

\* Threads are scheduled and connection attempts end. Nothing is assumed of
\* the remote end of an open connection: it need not send and need not close.
Fairness ==
    /\ WF_vars(SupervisorStep)
    /\ \A w \in 1..MaxTrackers :
          WF_vars(ThreadStep(w)) /\ WF_vars(ConnectResolves(w))

LiveSpec == Spec /\ Fairness

InState(w, st) == w \in Workers /\ trackers[w].state = st

\* C5 (a): the transitions of a worker that has not been told to stop follow
\* the cycle: a connection that fails to open, closes or errors leads to
\* Backoff, Backoff leads to a new connection attempt, and the worker never
\* terminates.
RunningCycle ==
    \A w \in Workers :
        (trackers[w].running /\ trackers'[w].state # trackers[w].state) =>
            << trackers[w].state, trackers'[w].state >> \in
                { << "Disconnected", "Connecting" >>,
                  << "Connecting", "Subscribed" >>,
                  << "Connecting", "Backoff" >>,
                  << "Subscribed", "Receiving" >>,
                  << "Receiving", "Backoff" >>,
                  << "Backoff", "Connecting" >> }

\* C5: a worker that has not been told to stop retries forever. Each failure
\* to open and each close leads through Backoff to a new connection attempt,
\* so a started worker attempts to connect infinitely often unless, from
\* some point on, its connection stays open for good.
RetriesForever ==
    /\ [][RunningCycle]_vars
    /\ \A w \in 1..MaxTrackers :
          /\ [](InState(w, "Backoff") => <>InState(w, "Connecting"))
          /\ \/ []<>InState(w, "Connecting")
             \/ <>[]InState(w, "Receiving")
             \/ [](w \notin Workers)

\* A worker is in Backoff after a connection on which it had sent its
\* subscription and received messages: the connection was opened and then
\* closed, and the worker is due to retry.
RetriesForeverWitness ==
    \E w \in Workers :
        /\ trackers[w].state = "Backoff"
        /\ trackers[w].running
        /\ Len(trackers[w].sent) = 1
        /\ nrecv > 0

\* --------------------------------------------------------------- stopping

\* A stop request. No method of the class clears the flag; running is the
\* one stop signal _run_forever reads ("while self.running", "if
\* self.running"), so telling a worker to stop is the assignment
\* tracker.running = False made from another thread. Nothing else is done
\* for a stop: the source never calls ws_app.close().
Stop(w) ==
    /\ trackers[w].running
    /\ trackers' = SetTracker(w, [trackers[w] EXCEPT !.running = FALSE])
    /\ UNCHANGED << sup_pc, API_KEY, vessel_static_data, vessel_positions,
                    tracking_active, mmsi_list, batches, emitted, nrecv,
                    last_merge, merge_log, part_vars, serve_vars >>

StopNext ==
    \/ Next
    \/ \E w \in Workers : Stop(w)

\* The program with stop requests from its environment.
StopSpec == Init /\ [][StopNext]_vars

LiveStopSpec == StopSpec /\ Fairness

Stopped(w) == w \in Workers /\ ~trackers[w].running

\* A worker told to stop starts no connection attempt.
NoAttemptAfterStop ==
    \A w \in Workers :
        ~trackers[w].running =>
            ~(trackers[w].state # "Connecting"
              /\ trackers'[w].state = "Connecting")

\* C6: once told to stop, a worker makes no further connection attempt, its
\* active connection is closed and it reaches its terminal state, in
\* whichever state the stop arrives.
StopTerminates ==
    /\ [][NoAttemptAfterStop]_vars
    /\ \A w \in 1..MaxTrackers :
          [](Stopped(w) => <>InState(w, "Terminated"))

\* ------------------------------------------------- failures and startup

BatchSet(t) == {t.mmsi_batch[i] : i \in DOMAIN t.mmsi_batch}

\* A step in which worker w's connection fails to open, closes, or is
\* retried: w enters or leaves Backoff.
FailureStep(w) ==
    /\ trackers'[w].state # trackers[w].state
    /\ trackers[w].state = "Backoff" \/ trackers'[w].state = "Backoff"

\* C7 (a): such a step changes no other worker, no batch, no entry of the
\* position table and publishes nothing.
FailureContained ==
    \A w \in Workers :
        FailureStep(w) =>
            /\ \A v \in Workers \ {w} : trackers'[v] = trackers[v]
            /\ trackers'[w].mmsi_batch = trackers[w].mmsi_batch
            /\ vessel_positions' = vessel_positions
            /\ vessel_static_data' = vessel_static_data
            /\ emitted' = emitted
            /\ tracking_active' = tracking_active

\* C7 (b): while a worker is in Backoff every other worker can go on: a
\* pending store or emit can be applied, and an idle open connection can
\* take the next message (as long as the run's message budget lasts).
OthersProceed ==
    \A w \in Workers, v \in Workers :
        (w # v /\ trackers[w].state = "Backoff") =>
            /\ trackers[v].pc = "store" => ENABLED StorePosition(v)
            /\ trackers[v].pc = "emit" => ENABLED ReadPayload(v)
            /\ trackers[v].pc = "send" => ENABLED EmitUpdate(v)
            /\ (trackers[v].state = "Receiving" /\ trackers[v].pc = "idle"
                /\ nrecv < MaxMsgs)
                  => ENABLED (\E msg \in Messages : OnMessage(v, msg))

\* C7: a connection failure, close or reconnect of one worker leaves every
\* other worker and every state store entry unchanged, and the other
\* workers keep receiving and merging while it is in Backoff.
FailureIsolated == [][FailureContained]_vars /\ []OthersProceed

\* A worker is in Backoff while the table still holds an entry of its batch
\* and another worker is about to store a sample.
FailureIsolatedWitness ==
    \E w \in Workers, v \in Workers :
        /\ w # v
        /\ trackers[w].state = "Backoff"
        /\ BatchSet(trackers[w]) \cap DOMAIN vessel_positions # {}
        /\ trackers[v].state = "Receiving"
        /\ trackers[v].pc = "store"

\* C8: once loading the credential or the catalog has failed, startup stays
\* failed (it is not retried), no worker is ever started and the active flag
\* stays false.
StartupFailureFinal ==
    /\ [][sup_pc = "failed" => sup_pc' = "failed"]_vars
    /\ [](sup_pc = "failed" =>
            /\ trackers = << >>
            /\ batches = << >>
            /\ ~tracking_active
            /\ ~get_stats.tracking_active)

\* The catalog query failed after the credential had been loaded.
StartupFailureWitness == sup_pc = "failed" /\ API_KEY # None

\* The catalog has been read and held no identifier.
EmptyCatalogLoaded ==
    /\ sup_pc \in {"create_batches", "start_trackers", "set_active", "done"}
    /\ mmsi_list = << >>

\* C9: with an empty identifier list there are no batches and no workers,
\* and the status surface reports tracking inactive from then on.
EmptyCatalogInactive ==
    EmptyCatalogLoaded =>
        /\ sup_pc # "create_batches" => batches = << >>
        /\ trackers = << >>
        /\ ~get_stats.tracking_active

\* No position merge has been applied yet.
BeforeFirstMerge == last_merge = EmptyDict

CatalogIds == {mmsi_list[i] : i \in DOMAIN mmsi_list}

\* The identifiers for which at least one accepted sample has been merged.
MergedIds == {merge_log[i].mmsi : i \in DOMAIN merge_log}

\* C11: once startup has completed for a non-empty catalog, /api/stats
\* reports total_vessels = the number of catalog identifiers,
\* vessels_with_position = the number of distinct identifiers merged so far
\* and tracking_active = true; and /api/vessels shows every catalog
\* identifier, one that has no merged sample with its static attributes and
\* no position.
StatusAfterStartup ==
    (sup_pc = "done" /\ mmsi_list # << >>) =>
        /\ get_stats.total_vessels = Cardinality(CatalogIds)
        /\ get_stats.vessels_with_position = Cardinality(MergedIds)
        /\ get_stats.tracking_active = TRUE
        /\ DOMAIN get_vessels = CatalogIds
        /\ \A m \in CatalogIds \ MergedIds :
              /\ get_vessels[m].position = None
              /\ get_vessels[m].name = OrDefault(CatalogRow(m).name, "Unknown")
              /\ get_vessels[m].flag_state =
                    OrDefault(CatalogRow(m).flag_state, "Unknown")
              /\ get_vessels[m].length = Some(CatalogRow(m).length)
              /\ get_vessels[m].ship_type = CatalogRow(m).ship_type

\* The catalog [1, 2, 3] split into two batches, startup complete, one
\* sample merged for identifier 3 and none for 1 and 2.
StatusAfterStartupWitness ==
    /\ sup_pc = "done"
    /\ mmsi_list = << 1, 2, 3 >>
    /\ Len(batches) = 2
    /\ MergedIds = {3}
    /\ get_stats = [total_vessels |-> 3, vessels_with_position |-> 1,
                    tracking_active |-> TRUE]
    /\ get_vessels[1].position = None
    /\ get_vessels[2].position = None
    /\ get_vessels[3].position # None

\* The "unknown" defaults of the static attributes together with the
\* coordinates la, lo.
UnknownAt(entry, la, lo) ==
    /\ entry.name = "Unknown"
    /\ entry.flag_state = "Unknown"
    /\ entry.length = None
    /\ entry.lat = la /\ entry.lat # None
    /\ entry.lon = lo /\ entry.lon # None

\* C14: merging a valid sample for an identifier that has no static
\* attributes never fails: the report is accepted, the dict built for it
\* carries name and flag 'Unknown', no length and the report's position, the
\* store is enabled, and the entry it creates is that dict.
UnknownDefaultsMerged ==
    /\ \A msg \in Messages :
          (Accepts(msg) /\ msg.MMSI[1] \notin DOMAIN vessel_static_data) =>
              UnknownAt(BuildPosition(msg), msg.latitude, msg.longitude)
    /\ \A w \in Workers :
          (trackers[w].pc = "store"
           /\ trackers[w].mmsi[1] \notin DOMAIN vessel_static_data) =>
              /\ ENABLED StorePosition(w)
              /\ UnknownAt(trackers[w].sample[1], trackers[w].sample[1].lat,
                           trackers[w].sample[1].lon)
    /\ \A i \in DOMAIN merge_log :
          merge_log[i].mmsi \notin DOMAIN vessel_static_data =>
              /\ merge_log[i].mmsi \in DOMAIN vessel_positions
              /\ UnknownAt(vessel_positions[merge_log[i].mmsi],
                           last_merge[merge_log[i].mmsi].lat,
                           last_merge[merge_log[i].mmsi].lon)

\* A sample has been merged for an identifier the catalog does not hold, and
\* its entry is there with the defaults.
UnknownDefaultsWitness ==
    /\ vessel_static_data # EmptyDict
    /\ \E m \in DOMAIN vessel_positions :
          /\ m \notin DOMAIN vessel_static_data
          /\ vessel_positions[m].name = "Unknown"
          /\ vessel_positions[m].length = None
          /\ vessel_positions[m].lat = Some(1)

\* The positions <<batch, index>> at which identifier m occurs in bs.
Occurrences(bs, m) ==
    UNION {{<< b, i >> : i \in {j \in DOMAIN bs[b] : bs[b][j] = m}} :
              b \in DOMAIN bs}

\* C16 (a): once the batches exist every catalog identifier occurs exactly
\* once in them and nothing else does; every worker started so far holds the
\* batch of its number, so no identifier is held by two workers.
BatchesPartition ==
    sup_pc \in {"start_trackers", "set_active", "done"} =>
        /\ \A m \in CatalogIds : Cardinality(Occurrences(batches, m)) = 1
        /\ \A b \in DOMAIN batches :
              \A i \in DOMAIN batches[b] : batches[b][i] \in CatalogIds
        /\ \A w \in Workers :
              trackers[w].batch_id = w /\ trackers[w].mmsi_batch = batches[w]
        /\ \A w \in Workers, v \in Workers :
              w # v => BatchSet(trackers[w]) \cap BatchSet(trackers[v]) = {}
        /\ sup_pc = "done" =>
              \A m \in CatalogIds :
                  Cardinality({w \in Workers : m \in BatchSet(trackers[w])}) = 1

\* C16 (b): no step changes the batch of a worker that exists, nor the
\* batches once they have been created.
BatchNeverChanges ==
    /\ \A w \in Workers :
          /\ w \in DOMAIN trackers'
          /\ trackers'[w].mmsi_batch = trackers[w].mmsi_batch
          /\ trackers'[w].batch_id = trackers[w].batch_id
    /\ batches # << >> => batches' = batches

\* C16: every tracked identifier belongs to exactly one batch and so to
\* exactly one worker for the whole session: no identifier is in two batches,
\* none is left out, and a worker's batch never changes after the worker is
\* constructed, reconnects included.
OneBatchPerIdentifier == []BatchesPartition /\ [][BatchNeverChanges]_vars

\* Two workers hold the two batches of the catalog [1, 2, 3]; the first
\* has lost a connection it had subscribed on and is about to reconnect,
\* the second is connected and has merged a sample.
OneBatchPerIdentifierWitness ==
    /\ sup_pc = "done"
    /\ Len(trackers) = 2
    /\ trackers[1].mmsi_batch = << 1, 2 >>
    /\ trackers[2].mmsi_batch = << 3 >>
    /\ trackers[1].state = "Backoff" /\ Len(trackers[1].sent) = 1
    /\ trackers[2].state = "Receiving"
    /\ merge_log # << >>

\* The decimal numeral of a natural number, digit by digit.
Digit == << "0", "1", "2", "3", "4", "5", "6", "7", "8", "9" >>

RECURSIVE Decimal(_)
Decimal(n) ==
    IF n < 10 THEN Digit[n + 1] ELSE Decimal(n \div 10) \o Digit[(n % 10) + 1]

\* The subscription request worker w owes: the credential start_tracking
\* loaded, the identifiers of batch w as decimal strings in batch order, and
\* one bounding box covering the globe.
ExpectedSubscription(w) ==
    [APIKey |-> API_KEY,
     FiltersShipMMSI |-> [i \in DOMAIN batches[w] |-> Decimal(batches[w][i])],
     BoundingBoxes |-> << << << 90, -180 >>, << -90, 180 >> >> >>]

\* C18 (a): a connection that is not yet open has sent nothing; an open one
\* that delivers messages has sent exactly the one request; and a message is
\* only ever being handled on such a connection.
SubscriptionSent ==
    \A w \in Workers :
        /\ trackers[w].state \in {"Connecting", "Subscribed"} =>
              trackers[w].sent = << >>
        /\ trackers[w].state = "Subscribed" =>
              /\ ENABLED OnOpen(w)
              /\ ~ENABLED (\E msg \in Messages : OnMessage(w, msg))
        /\ trackers[w].state = "Receiving" =>
              trackers[w].sent = << ExpectedSubscription(w) >>
        /\ trackers[w].pc # "idle" =>
              /\ trackers[w].state = "Receiving"
              /\ trackers[w].sent = << ExpectedSubscription(w) >>

\* C18 (b): what a connection has sent changes only when on_open sends the
\* request on a connection that has just opened, or when a new connection
\* is created; an opened connection takes no other step before on_open.
SubscriptionStep ==
    \A w \in Workers :
        /\ trackers'[w].sent # trackers[w].sent =>
              \/ /\ trackers[w].state = "Subscribed"
                 /\ trackers'[w].state = "Receiving"
                 /\ trackers'[w].sent = << ExpectedSubscription(w) >>
              \/ /\ trackers[w].state = "Backoff"
                 /\ trackers'[w].state = "Connecting"
                 /\ trackers'[w].sent = << >>
        /\ (trackers[w].state = "Subscribed" /\ trackers'[w] # trackers[w]) =>
              trackers'[w].state = "Receiving"

\* C18: on every successful open, reconnects included, the worker sends
\* exactly one subscription request before it handles any inbound message of
\* that connection, and the request names exactly its own batch (as strings,
\* in batch order) with its credential and the global bounding box.
SubscribesOnEveryOpen == []SubscriptionSent /\ [][SubscriptionStep]_vars

\* A reconnect: the only worker merged a sample on an earlier connection,
\* lost it, slept, and its new connection has just opened. Nothing has been
\* sent on the new connection and on_open, which sends the request for the
\* batch [1, 2], is the one step the worker can take.
SubscribesOnEveryOpenWitness ==
    /\ Len(trackers) = 1
    /\ merge_log # << >>
    /\ trackers[1].mmsi_batch = << 1, 2 >>
    /\ trackers[1].state = "Subscribed"
    /\ trackers[1].sent = << >>
    /\ ENABLED OnOpen(1)
    /\ SubscribeMessage(trackers[1]) =
          [APIKey |-> API_KEY,
           FiltersShipMMSI |-> << "1", "2" >>,
           BoundingBoxes |-> << << << 90, -180 >>, << -90, 180 >> >> >>]

\* C19 (a): while the flag is true there is one started worker per batch;
\* the workers that exist are those of the first batches, in batch order;
\* and once a worker exists every catalog identifier has its static entry.
ActiveAfterAllStarted ==
    /\ tracking_active => Len(trackers) = Len(batches)
    /\ Len(trackers) <= Len(batches)
    /\ \A w \in Workers :
          /\ trackers[w].batch_id = w
          /\ trackers[w].mmsi_batch = batches[w]
          /\ trackers[w].running
    /\ trackers # << >> =>
          \A m \in CatalogIds :
              /\ m \in DOMAIN vessel_static_data
              /\ vessel_static_data[m] = StaticEntry(CatalogRow(m))

\* C19 (b): the flag never goes back to false, workers are added one at a
\* time at the end of the sequence, and the static data does not change once
\* a worker exists.
ActiveStep ==
    /\ tracking_active => tracking_active'
    /\ (tracking_active' /\ ~tracking_active) =>
          /\ Len(trackers) = Len(batches)
          /\ trackers' = trackers
    /\ Len(trackers') # Len(trackers) =>
          /\ Len(trackers') = Len(trackers) + 1
          /\ SubSeq(trackers', 1, Len(trackers)) = trackers
          /\ trackers'[Len(trackers')].mmsi_batch = batches[Len(trackers')]
          /\ ~tracking_active'
    /\ trackers # << >> => vessel_static_data' = vessel_static_data

\* C19: tracking_active becomes true only after one worker has been started
\* for every batch, the workers are started one at a time in batch order,
\* the static attributes are all seeded before the first worker starts, and
\* once true the flag never returns to false.
ActiveOnlyAfterStart == []ActiveAfterAllStarted /\ [][ActiveStep]_vars

\* Both workers of the catalog [1, 2, 3] have been started, the flag is set,
\* and a worker has since merged a sample.
ActiveOnlyAfterStartWitness ==
    /\ tracking_active
    /\ Len(batches) = 2
    /\ Len(trackers) = 2
    /\ vessel_positions # EmptyDict

\* C17: a worker only ever writes position entries of its own batch: a
\* store step of worker w creates or overwrites the entry of identifier m
\* only if m is in w's batch.
WritesOwnBatchOnly ==
    [][\A w \in Workers :
          StorePosition(w) => trackers[w].mmsi[1] \in BatchSet(trackers[w])]_vars

\* C20 (a): the counters of /api/stats satisfy vessels_with_position <=
\* total_vessels, every key of the position table being a key of the static
\* table.
PositionedAreTracked ==
    /\ DOMAIN vessel_positions \subseteq DOMAIN vessel_static_data
    /\ get_stats.vessels_with_position <= get_stats.total_vessels

\* C20 (b): no step removes a position entry or lowers the count.
PositionedNeverDecreases ==
    /\ DOMAIN vessel_positions \subseteq DOMAIN vessel_positions'
    /\ Cardinality(DOMAIN vessel_positions')
          >= Cardinality(DOMAIN vessel_positions)

\* C20: in every reachable state vessels_with_position <= total_vessels,
\* i.e. every identifier with a position entry also has static attributes,
\* and vessels_with_position never decreases.
PositionedWithinTracked ==
    []PositionedAreTracked /\ [][PositionedNeverDecreases]_vars

\* -------------------------------------------------- a subscribing client

\* list(vessel_static_data.keys()): the keys in insertion order, which is
\* the order of the rows get_filtered_vessels stored.
StaticKeys == IF vessel_static_data = EmptyDict THEN << >> ELSE mmsi_list

\* Mutant of InitialData: the payload leaves the positions out.
InitialDataNoPositions ==
    [vessels |-> StaticKeys, positions |-> EmptyDict]

\* The payload of 'initial_data'. emit serialises it before it returns, so
\* the client is sent the table as it is at the call.
InitialData ==
    [vessels |-> StaticKeys, positions |-> vessel_positions]

\* A client's connect request arrives. The Socket.IO server registers the
\* client before it calls the 'connect' handler, so from here on every
\* event a worker emits is sent to this client as well.
ClientConnects ==
    /\ observer.pc = "away"
    /\ observer' = [observer EXCEPT !.pc = "connected",
                                    !.first = Len(emitted)]
    /\ UNCHANGED << prog_vars, part_vars, request >>

\* handle_connect: emit('initial_data', ...) to the client that connected.
HandleConnect ==
    /\ observer.pc = "connected"
    /\ observer' = [observer EXCEPT !.pc = "subscribed",
                                    !.initial_data = Some(InitialData)]
    /\ UNCHANGED << prog_vars, part_vars, request >>

SubscribeNext == Next \/ ClientConnects \/ HandleConnect

\* The program with one client that may connect at any moment.
SubscribeSpec == Init /\ [][SubscribeNext]_vars

\* The vessel_update events the client has been sent: those emitted since
\* it was registered.
Delivered == SubSeq(emitted, observer.first + 1, Len(emitted))

\* The merge e = [mmsi, position] is in the client's initial snapshot.
InSnapshot(e) ==
    /\ e.mmsi \in DOMAIN observer.initial_data[1].positions
    /\ observer.initial_data[1].positions[e.mmsi] = e.position

\* The client has been sent the merge e as a vessel_update.
WasDelivered(e) == \E j \in DOMAIN Delivered : Delivered[j] = e

\* No worker is still between the store of e and the emit that follows it.
Published(e) ==
    \A w \in Workers :
        ~(/\ trackers[w].pc \in {"emit", "send"}
          /\ trackers[w].mmsi[1] = e.mmsi
          /\ trackers[w].sample[1] = e.position)

\* C12: a client that subscribes misses nothing: every sample merged (and
\* published) is contained in the initial snapshot it was sent or has been
\* delivered to it afterwards as a vessel_update.
MissesNoSample ==
    observer.pc = "subscribed" =>
        \A i \in DOMAIN merge_log :
            Published(merge_log[i]) =>
                InSnapshot(merge_log[i]) \/ WasDelivered(merge_log[i])

\* C12 as amended: for every sample merged (and published), that sample or
\* one merged later for the same identifier is contained in the client's
\* initial snapshot or has been delivered to it as a vessel_update.
MissesNoIdentifier ==
    observer.pc = "subscribed" =>
        \A i \in DOMAIN merge_log :
            Published(merge_log[i]) =>
                \E k \in i..Len(merge_log) :
                    /\ merge_log[k].mmsi = merge_log[i].mmsi
                    /\ InSnapshot(merge_log[k]) \/ WasDelivered(merge_log[k])

\* Two different samples were merged for one identifier. The client was
\* registered after the first had been published and while the second was
\* being merged: the second is in its snapshot and was delivered as well,
\* the first it never saw.
MissesNoIdentifierWitness ==
    /\ observer.pc = "subscribed"
    /\ Len(merge_log) = 2
    /\ merge_log[1].mmsi = merge_log[2].mmsi
    /\ merge_log[1].position # merge_log[2].position
    /\ \A w \in Workers : trackers[w].pc = "idle"
    /\ ~InSnapshot(merge_log[1]) /\ ~WasDelivered(merge_log[1])
    /\ InSnapshot(merge_log[2]) /\ WasDelivered(merge_log[2])

\* The entries of log that are about identifier m, in their order.
ForIdentifier(log, m) ==
    LET About(e) == e.mmsi = m IN SelectSeq(log, About)

IsPrefix(s, t) == Len(s) <= Len(t) /\ SubSeq(t, 1, Len(s)) = s

\* C13: for any identifier (and any client connected throughout) the
\* vessel_update events published for it carry the samples in the order in
\* which they were merged: the payload a worker is about to emit is the
\* sample its own merge wrote, and the events published so far are the
\* first merges of that identifier, none reordered or replaced.
PublishedInMergeOrder ==
    /\ \A w \in Workers :
          trackers[w].pc = "send" =>
              trackers[w].payload = trackers[w].sample
    /\ \A m \in MergedIds :
          IsPrefix(ForIdentifier(emitted, m), ForIdentifier(merge_log, m))

\* ------------------------------------------------- a GET /api/vessels request

\* A request for /api/vessels arrives and get_vessels starts its loop over
\* vessel_static_data.items(). The server is started two seconds after the
\* tracking thread, when the static data has been stored.
RequestArrives ==
    /\ request.pc = "none"
    /\ sup_pc \notin {"load_api_key", "get_filtered_vessels"}
    /\ request' = [request EXCEPT !.pc = "iterating", !.next = 1,
                                  !.begin = Len(merge_log)]
    /\ UNCHANGED << prog_vars, part_vars, observer >>

\* One iteration of the loop: the vessel_info of the next key, with the
\* position entry the table holds for it now.
RequestStep ==
    /\ request.pc = "iterating"
    /\ request.next <= Len(StaticKeys)
    /\ request' =
          [request EXCEPT
              !.vessels = Append(@, VesselInfo(vessel_static_data,
                                               vessel_positions,
                                               StaticKeys[request.next])),
              !.next = @ + 1]
    /\ UNCHANGED << prog_vars, part_vars, observer >>

\* The loop is over: return jsonify(vessels).
RequestDone ==
    /\ request.pc = "iterating"
    /\ request.next > Len(StaticKeys)
    /\ request' = [request EXCEPT !.pc = "done", !.end = Len(merge_log)]
    /\ UNCHANGED << prog_vars, part_vars, observer >>

QueryNext == Next \/ RequestArrives \/ RequestStep \/ RequestDone

\* The program with one /api/vessels request that may arrive at any moment.
QuerySpec == Init /\ [][QueryNext]_vars

\* The position table as it was after the first k merges.
TableAt(k) ==
    [m \in {merge_log[i].mmsi : i \in 1..k} |->
        LET last == CHOOSE i \in 1..k :
                       /\ merge_log[i].mmsi = m
                       /\ \A j \in (i + 1)..k : merge_log[j].mmsi # m
        IN  merge_log[last].position]

\* What get_vessels returns when nothing is merged while it runs and the
\* table is the one after the first k merges.
SnapshotAt(k) ==
    [i \in DOMAIN StaticKeys |->
        VesselInfo(vessel_static_data, TableAt(k), StaticKeys[i])]

\* C15: the result of /api/vessels is a point-in-time copy: whatever is
\* merged while get_vessels iterates, the list it returns is the snapshot of
\* the table at one moment of the call, and the loop can always go on.
SnapshotIsPointInTime ==
    /\ request.pc = "done" =>
          \E k \in request.begin..request.end : request.vessels = SnapshotAt(k)
    /\ request.pc = "iterating" => ENABLED (RequestStep \/ RequestDone)

====
